---- MODULE Spec2Model ----
(***************************************************************************)
(* Yantra calculator: the instrument geometry models, the site             *)
(* orchestrator (src/yantras.py), the astronomy of the sun                 *)
(* (src/astronomy.py) and the HTTP handlers (app.py).                      *)
(*                                                                         *)
(* Numbers.  Python floats are modelled in fixed point:                    *)
(*   angles      in 1/10000 degree   (26.9247 deg  = 269247)               *)
(*   lengths     in millimetres      (27.4 m       = 27400)                *)
(*   scale       in tenths           (scale 1.0    = 10)                   *)
(*   counts      as plain integers                                         *)
(*   ratios, hours in 1/10000     (sin, cos, tan; 12 h = 120000)           *)
(* math.sin / math.tan are tabulated as rationals num/den.  The one place  *)
(* where binary64 decides a branch below this resolution is tabulated      *)
(* (Binary64AboveOne).                                                     *)
(***************************************************************************)
EXTENDS Integers, Sequences, FiniteSets, TLC

VARIABLES request, response, constructed, invoked, calc, out, ncalls,
          held, threads, astro_calc, astro_out, analysis

vars == <<request, response, constructed, invoked, calc, out, ncalls,
          held, threads, astro_calc, astro_out, analysis>>

(***************************************************************************)
(* Units                                                                   *)
(***************************************************************************)
Degrees(n) == n * 10000    \* n whole degrees, in angle units
ScaleOne == 10             \* scale 1.0 (the default scale), in scale units

Abs(x) == IF x < 0 THEN -x ELSE x
Sgn(x) == IF x < 0 THEN -1 ELSE IF x > 0 THEN 1 ELSE 0
Max(a, b) == IF a >= b THEN a ELSE b

\* assignment to a local: { e(v) : v \in {x} } evaluates x once, and the body
\* e reads the value
Local(S) == CHOOSE y \in S : TRUE

\* quotient rounded toward zero, symmetric in the sign like a float quotient
TDiv(a, b) == Sgn(a) * Sgn(b) * (Abs(a) \div Abs(b))

\* the scale applied twice
Scaled_Squared(c, scale) == TDiv(c * scale * scale, ScaleOne * ScaleOne)

\* coefficient (in mm at scale 1.0) times the scale:  c * self.scale
Scaled(c, scale) == TDiv(c * scale, ScaleOne)

(***************************************************************************)
(* Outcomes of a call: it returns a value or it raises.                    *)
(***************************************************************************)
Return(v) == [state |-> "returned", value |-> v]
Raise(e) == [state |-> "raised", value |-> e]
NotCalled == [state |-> "none", value |-> "none"]

(***************************************************************************)
(* math.radians, math.sin, math.tan.  The table holds                      *)
(* round(1000*sin(radians(d))) and round(1000*cos(radians(d))) for the     *)
(* latitudes the model uses; tan is sin/cos.  cos(radians(90)) is the      *)
(* float 6.1e-17 > 0, held as the smallest positive table unit.            *)
(***************************************************************************)
TrigTable ==
    ( -900000 :> [sn |-> -1000, cs |-> 1] ) @@
    ( -450000 :> [sn |-> -707, cs |-> 707] ) @@
    ( -4035 :> [sn |-> -7, cs |-> 1000] ) @@
    ( 0 :> [sn |-> 0, cs |-> 1000] ) @@
    ( 231793 :> [sn |-> 394, cs |-> 919] ) @@
    ( 253181 :> [sn |-> 428, cs |-> 904] ) @@
    ( 269247 :> [sn |-> 453, cs |-> 892] ) @@
    ( 274924 :> [sn |-> 462, cs |-> 887] ) @@
    ( 286269 :> [sn |-> 479, cs |-> 878] ) @@
    ( 450000 :> [sn |-> 707, cs |-> 707] ) @@
    ( 600000 :> [sn |-> 866, cs |-> 500] ) @@
    ( 900000 :> [sn |-> 1000, cs |-> 1] )

radians(d) == [rad_of |-> d]
sin(r) == [num |-> TrigTable[r.rad_of].sn, den |-> 1000]
tan(r) == [num |-> TrigTable[r.rad_of].sn, den |-> TrigTable[r.rad_of].cs]

\* x / r for a float x and a trig value r; Python raises on a zero divisor
FDiv(x, r) ==
    IF r.num = 0 THEN Raise("ZeroDivisionError")
    ELSE Return(TDiv(x * r.den, r.num))

\* f"{x:.1f}" of an angle: the value rounded to one decimal (tenths of a degree)
Fmt1(x) == Sgn(x) * ((Abs(x) + 500) \div 1000)

(***************************************************************************)
(* Instrument models (yantras.py)                                          *)
(***************************************************************************)
Instrument(latitude, longitude, scale) ==
    [latitude |-> latitude, longitude |-> longitude, scale |-> scale,
     latitude_rad |-> radians(latitude)]

SamratYantra(latitude, longitude, scale) == Instrument(latitude, longitude, scale)
RamaYantra(latitude, longitude, scale) == Instrument(latitude, longitude, scale)
\* the constructor storing its first two arguments the wrong way round
DhruvaYantra_ArgumentsSwapped(latitude, longitude, scale) ==
    Instrument(longitude, latitude, scale)

DhruvaYantra(latitude, longitude, scale) == Instrument(latitude, longitude, scale)
DigamsaYantra(latitude, longitude, scale) ==
    [latitude |-> latitude, longitude |-> longitude, scale |-> scale]

\* the inclination taken as a magnitude
SamratAngles_Magnitude(self, gnomon_angle) ==
    [gnomon_inclination |-> Abs(gnomon_angle),
     latitude_alignment |-> self.latitude,
     meridian_orientation |-> 0,
     hour_step_angle |-> Degrees(15),
     minute_step_angle |-> 2500]

\* the angles dictionary of the Samrat Yantra
SamratAngles(self, gnomon_angle) ==
    [gnomon_inclination |-> gnomon_angle,
     latitude_alignment |-> self.latitude,
     meridian_orientation |-> 0,
     hour_step_angle |-> Degrees(15),
     minute_step_angle |-> 2500]

SamratSpecs(self, base_height, gnomon_hypotenuse, gnomon_base) ==
    LET gnomon_angle == self.latitude
        quadrant_radius == gnomon_hypotenuse
        wall_thickness == Max(Scaled(600, self.scale), 300)
        scale_width == Scaled(3000, self.scale)
    IN [name |-> "Samrat Yantra",
        description |-> "Giant sundial and primary timekeeping instrument",
        dimensions |->
           [gnomon_height |-> base_height,
            gnomon_angle |-> gnomon_angle,
            gnomon_hypotenuse |-> gnomon_hypotenuse,
            gnomon_base |-> gnomon_base,
            quadrant_radius |-> quadrant_radius,
            wall_thickness |-> wall_thickness,
            total_length |-> gnomon_base + 2 * quadrant_radius,
            total_width |-> 2 * quadrant_radius,
            scale_width |-> scale_width,
            hour_markings_count |-> 24,
            minute_markings_count |-> 1440],
        angles |-> SamratAngles(self, gnomon_angle),
        materials |-> <<"Red sandstone (traditional)",
                        "Marble (for precision surfaces)",
                        "Metal inlays (for fine markings)",
                        "Concrete (modern alternative)">>,
        construction_notes |-> <<"Samrat notes", Fmt1(gnomon_angle)>>]

\* the base computed with the sine, like the hypotenuse
SamratYantra_calculate_dimensions_BaseFromSine(self) ==
    LET base_height == Scaled(27400, self.scale)
        hyp == FDiv(base_height, sin(self.latitude_rad))
        base == FDiv(base_height, sin(self.latitude_rad))
    IN IF hyp.state = "raised" THEN hyp
       ELSE IF base.state = "raised" THEN base
       ELSE Return(SamratSpecs(self, base_height, hyp.value, base.value))

SamratYantra_calculate_dimensions(self) ==
    LET base_height == Scaled(27400, self.scale)
        hyp == FDiv(base_height, sin(self.latitude_rad))
        base == FDiv(base_height, tan(self.latitude_rad))
    IN IF hyp.state = "raised" THEN hyp
       ELSE IF base.state = "raised" THEN base
       ELSE Return(SamratSpecs(self, base_height, hyp.value, base.value))

RamaYantra_calculate_dimensions(self) ==
    LET base_radius == Scaled(6000, self.scale)
        pillar_height == Scaled(4500, self.scale)
        radial_divisions == 12
        radial_angle_step == (Degrees(360)) \div radial_divisions
        wall_height == Scaled(2500, self.scale)
        wall_thickness == Scaled(300, self.scale)
        altitude_step == 1
    IN Return(
       [name |-> "Rama Yantra",
        description |-> "Cylindrical instrument for altitude-azimuth measurements",
        dimensions |->
           [base_radius |-> base_radius,
            pillar_height |-> pillar_height,
            wall_height |-> wall_height,
            wall_thickness |-> wall_thickness,
            total_diameter |-> 2 * base_radius,
            radial_divisions |-> radial_divisions,
            altitude_scale_length |-> pillar_height,
            scale_precision |-> altitude_step],
        angles |->
           [radial_step_angle |-> radial_angle_step,
            altitude_range |-> Degrees(90),
            azimuth_range |-> Degrees(360),
            latitude_correction |-> self.latitude],
        materials |-> <<"Stone masonry", "Metal scale markings",
                        "Plaster finish (smooth surface)">>,
        construction_notes |-> <<"Rama notes">>])

\* the angles carrying a latitude correction, as those of the Rama Yantra do
DigamsaYantra_calculate_dimensions_LatitudeCorrected(self) ==
    LET platform_radius == Scaled(4000, self.scale)
        platform_thickness == Scaled(500, self.scale)
        gnomon_height == Scaled(2000, self.scale)
        gnomon_thickness == Scaled(100, self.scale)
        fine_divisions == 360
        outer_ring_width == Scaled(500, self.scale)
        inner_ring_width == Scaled(300, self.scale)
    IN Return(
       [name |-> "Digamsa Yantra",
        description |-> "Precision azimuth/direction measuring instrument",
        dimensions |->
           [platform_radius |-> platform_radius,
            platform_thickness |-> platform_thickness,
            platform_diameter |-> 2 * platform_radius,
            gnomon_height |-> gnomon_height,
            gnomon_thickness |-> gnomon_thickness,
            outer_ring_width |-> outer_ring_width,
            inner_ring_width |-> inner_ring_width,
            scale_divisions |-> fine_divisions],
        angles |->
           [primary_angle_step |-> Degrees(90),
            secondary_angle_step |-> Degrees(45),
            fine_angle_step |-> Degrees(1),
            precision |-> 1000,
            latitude_correction |-> self.latitude],
        materials |-> <<"Marble platform", "Bronze gnomon",
                        "Engraved direction markings">>,
        construction_notes |-> <<"Digamsa notes">>])

DigamsaYantra_calculate_dimensions(self) ==
    LET platform_radius == Scaled(4000, self.scale)
        platform_thickness == Scaled(500, self.scale)
        gnomon_height == Scaled(2000, self.scale)
        gnomon_thickness == Scaled(100, self.scale)
        fine_divisions == 360
        outer_ring_width == Scaled(500, self.scale)
        inner_ring_width == Scaled(300, self.scale)
    IN Return(
       [name |-> "Digamsa Yantra",
        description |-> "Precision azimuth/direction measuring instrument",
        dimensions |->
           [platform_radius |-> platform_radius,
            platform_thickness |-> platform_thickness,
            platform_diameter |-> 2 * platform_radius,
            gnomon_height |-> gnomon_height,
            gnomon_thickness |-> gnomon_thickness,
            outer_ring_width |-> outer_ring_width,
            inner_ring_width |-> inner_ring_width,
            scale_divisions |-> fine_divisions],
        angles |->
           [primary_angle_step |-> Degrees(90),
            secondary_angle_step |-> Degrees(45),
            fine_angle_step |-> Degrees(1),
            precision |-> 1000],
        materials |-> <<"Marble platform", "Bronze gnomon",
                        "Engraved direction markings">>,
        construction_notes |-> <<"Digamsa notes">>])

DhruvaYantra_calculate_dimensions(self) ==
    LET pole_angle == self.latitude
        base_radius == Scaled(3000, self.scale)
        polar_axis_length == Scaled(5000, self.scale)
        outer_ring_radius == Scaled(2500, self.scale)
        inner_ring_radius == Scaled(1500, self.scale)
        ring_thickness == Scaled(200, self.scale)
        sight_tube_length == Scaled(1000, self.scale)
        sight_tube_diameter == Scaled(50, self.scale)
    IN Return(
       [name |-> "Dhruva-Protha-Chakra Yantra",
        description |-> "Polar alignment and north-finding instrument",
        dimensions |->
           [base_radius |-> base_radius,
            polar_axis_length |-> polar_axis_length,
            outer_ring_radius |-> outer_ring_radius,
            inner_ring_radius |-> inner_ring_radius,
            ring_thickness |-> ring_thickness,
            sight_tube_length |-> sight_tube_length,
            sight_tube_diameter |-> sight_tube_diameter,
            base_diameter |-> 2 * base_radius],
        angles |->
           [pole_inclination_angle |-> pole_angle,
            latitude_alignment |-> self.latitude,
            celestial_pole_angle |-> Degrees(90) - self.latitude,
            precision_arc_minutes |-> 2],
        materials |-> <<"Bronze or brass (for rings)", "Steel (for polar axis)",
                        "Stone base platform">>,
        construction_notes |-> <<"Dhruva notes", Fmt1(pole_angle)>>])

(***************************************************************************)
(* Astronomy (astronomy.py, class AstronomicalCalculator).                 *)
(* Ratios (values of sin, cos, tan) and hours are in 1/10000, like angles. *)
(* math.sin is its table at the whole degrees 0..90, interpolated between  *)
(* neighbours and continued by symmetry; cos, tan, asin and acos are taken *)
(* from it.  math.cos of 90 degrees is the smallest positive ratio instead *)
(* of 0, as the float is (6.1e-17), so that tan is large and finite there. *)
(***************************************************************************)
Ratio(n) == n * 10000      \* the number n, in ratio units
Hours(n) == n * 10000      \* n hours, in time units

\* a * b / den without an intermediate product beyond 32 bits
FMul(a, b, den) ==
    Local({ Sgn(x) * Sgn(y) *
               ((Abs(x) \div den) * Abs(y) + ((Abs(x) % den) * Abs(y)) \div den) :
            x \in {a}, y \in {b} })

SinTable ==
    <<
      0, 175, 349, 523, 698, 872, 1045, 1219, 1392, 1564,
      1736, 1908, 2079, 2250, 2419, 2588, 2756, 2924, 3090, 3256,
      3420, 3584, 3746, 3907, 4067, 4226, 4384, 4540, 4695, 4848,
      5000, 5150, 5299, 5446, 5592, 5736, 5878, 6018, 6157, 6293,
      6428, 6561, 6691, 6820, 6947, 7071, 7193, 7314, 7431, 7547,
      7660, 7771, 7880, 7986, 8090, 8192, 8290, 8387, 8480, 8572,
      8660, 8746, 8829, 8910, 8988, 9063, 9135, 9205, 9272, 9336,
      9397, 9455, 9511, 9563, 9613, 9659, 9703, 9744, 9781, 9816,
      9848, 9877, 9903, 9925, 9945, 9962, 9976, 9986, 9994, 9998,
      10000
    >>

\* sin of an angle a in 0..90 degrees
SinQuadrant(a) ==
    Local({ IF k >= 90 THEN SinTable[91]
            ELSE SinTable[k + 1]
                 + ((SinTable[k + 2] - SinTable[k + 1]) * f) \div Degrees(1) :
            k \in {a \div Degrees(1)}, f \in {a % Degrees(1)} })

math_sin(r) ==
    Local({ IF m <= Degrees(90) THEN SinQuadrant(m)
            ELSE IF m <= Degrees(180) THEN SinQuadrant(Degrees(180) - m)
            ELSE IF m <= Degrees(270) THEN -SinQuadrant(m - Degrees(180))
            ELSE -SinQuadrant(Degrees(360) - m) :
            m \in {r.rad_of % Degrees(360)} })

math_cos(r) == math_sin(radians(r.rad_of + Degrees(90)))

math_tan(r) ==
    Local({ TDiv(s * Ratio(1), IF c = 0 THEN 1 ELSE c) :
            s \in {math_sin(r)}, c \in {math_cos(r)} })

\* math.asin: ValueError (math domain error) outside [-1, 1]
math_asin(v) ==
    Local({ IF w < -Ratio(1) \/ w > Ratio(1) THEN Raise("ValueError")
            ELSE IF Abs(w) = Ratio(1) THEN Return(radians(Sgn(w) * Degrees(90)))
            ELSE Local({ Return(radians(Sgn(w) *
                            (k * Degrees(1)
                             + ((Abs(w) - SinTable[k + 1]) * Degrees(1))
                                   \div (SinTable[k + 2] - SinTable[k + 1])))) :
                         k \in {CHOOSE j \in 0..89 :
                                   SinTable[j + 1] <= Abs(w)
                                   /\ Abs(w) < SinTable[j + 2]} }) :
            w \in {v} })

\* math.acos, with the same domain
math_acos(v) ==
    Local({ IF a.state = "raised" THEN a
            ELSE Return(radians(Degrees(90) - a.value.rad_of)) :
            a \in {math_asin(v)} })

\* math.degrees
degrees(r) == r.rad_of

EARTH_OBLIQUITY == 234393

AstronomicalCalculator(latitude, longitude) ==
    [latitude |-> latitude, longitude |-> longitude,
     latitude_rad |-> radians(latitude), longitude_rad |-> radians(longitude)]

\* 360 * (284 + day_of_year) / 365, in angle units
DayAngle(day_of_year) ==
    Local({ (n \div 365) * Degrees(1) + ((n % 365) * Degrees(1)) \div 365 :
            n \in {360 * (284 + day_of_year)} })

\* the obliquity rounded to 23.5 degrees
solar_declination_RoundedObliquity(self, day_of_year) ==
    FMul(235000, math_sin(radians(DayAngle(day_of_year))), Ratio(1))

solar_declination(self, day_of_year) ==
    FMul(EARTH_OBLIQUITY, math_sin(radians(DayAngle(day_of_year))), Ratio(1))

\* cos_hour_angle = -math.tan(self.latitude_rad) * math.tan(declination)
cos_hour_angle(self, day_of_year) ==
    Local({ FMul(-math_tan(self.latitude_rad), math_tan(declination), Ratio(1)) :
            declination \in {radians(solar_declination(self, day_of_year))} })

\* both tests inclusive
sunrise_sunset_branch_Inclusive(c) ==
    IF c <= -Ratio(1) THEN "polar_day"
    ELSE IF c >= Ratio(1) THEN "polar_night"
    ELSE "ordinary"

\* the if / elif of sunrise_sunset_times: the return statement reached
sunrise_sunset_branch(c) ==
    IF c < -Ratio(1) THEN "polar_day"
    ELSE IF c > Ratio(1) THEN "polar_night"
    ELSE "ordinary"

\* polar night reported as (0, 0)
sunrise_sunset_times_NightAtZero(self, day_of_year) ==
    Local({ LET branch == sunrise_sunset_branch(c)
            IN IF branch = "polar_day"
               THEN Return([sunrise |-> Hours(0), sunset |-> Hours(24),
                            branch |-> branch])
               ELSE IF branch = "polar_night"
               THEN Return([sunrise |-> Hours(0), sunset |-> Hours(0),
                            branch |-> branch])
               ELSE Local({ IF a.state = "raised" THEN a
                            ELSE LET hour_angle == degrees(a.value)
                                 IN Return([sunrise |-> Hours(12) - TDiv(hour_angle, 15),
                                            sunset |-> Hours(12) + TDiv(hour_angle, 15),
                                            branch |-> branch]) :
                            a \in {math_acos(c)} }) :
            c \in {cos_hour_angle(self, day_of_year)} })

\* returns (sunrise, sunset); branch records the return statement reached
sunrise_sunset_times(self, day_of_year) ==
    Local({ LET branch == sunrise_sunset_branch(c)
            IN IF branch = "polar_day"
               THEN Return([sunrise |-> Hours(0), sunset |-> Hours(24),
                            branch |-> branch])
               ELSE IF branch = "polar_night"
               THEN Return([sunrise |-> Hours(12), sunset |-> Hours(12),
                            branch |-> branch])
               ELSE Local({ IF a.state = "raised" THEN a
                            ELSE LET hour_angle == degrees(a.value)
                                 IN Return([sunrise |-> Hours(12) - TDiv(hour_angle, 15),
                                            sunset |-> Hours(12) + TDiv(hour_angle, 15),
                                            branch |-> branch]) :
                            a \in {math_acos(c)} }) :
            c \in {cos_hour_angle(self, day_of_year)} })

\* 15 * (local_solar_time - 12): degrees from hours
solar_hour_angle(self, local_solar_time) == 15 * (local_solar_time - Hours(12))

np_clip(x, lo, hi) ==
    Local({ IF v < lo THEN lo ELSE IF v > hi THEN hi ELSE v : v \in {x} })

\* The one place where a digit beyond the fixed point decides a branch: in
\* binary64 the sum below is 1.0000000000000002 at noon of day 80 for the
\* latitude -0.4034688 (declination of that day: -0.40346884680988754),
\* while the fixed-point sum stays below Ratio(1).  The model carries that
\* latitude as -4035 and holds the excess as one ratio unit.
Binary64AboveOne ==
    {[latitude |-> -4035, day_of_year |-> 80, local_solar_time |-> Hours(12)]}

\* sin(declination) sin(latitude) + cos(declination) cos(latitude) cos(hour angle)
sin_elevation(self, day_of_year, local_solar_time) ==
    LET declination == radians(solar_declination(self, day_of_year))
        hour_angle == radians(solar_hour_angle(self, local_solar_time))
    IN IF [latitude |-> self.latitude, day_of_year |-> day_of_year,
           local_solar_time |-> local_solar_time] \in Binary64AboveOne
       THEN Ratio(1) + 1
       ELSE FMul(math_sin(declination), math_sin(self.latitude_rad), Ratio(1))
            + FMul(FMul(math_cos(declination), math_cos(self.latitude_rad),
                        Ratio(1)),
                   math_cos(hour_angle), Ratio(1))

\* the quotient handed to np.clip; elevation is in degrees.  The divisor
\* math.cos of 90 degrees is the smallest positive ratio, as in math_tan.
cos_azimuth(self, day_of_year, local_solar_time, elevation) ==
    LET declination == radians(solar_declination(self, day_of_year))
        hour_angle == radians(solar_hour_angle(self, local_solar_time))
    IN Local({ TDiv(n * Ratio(1), IF c = 0 THEN 1 ELSE c) :
               n \in {FMul(math_sin(declination), math_cos(self.latitude_rad),
                           Ratio(1))
                      - FMul(FMul(math_cos(declination),
                                  math_sin(self.latitude_rad), Ratio(1)),
                             math_cos(hour_angle), Ratio(1))},
               c \in {math_cos(radians(elevation))} })

\* the reflection applied from noon on
adjust_azimuth_FromNoon(hour_angle, azimuth) ==
    IF hour_angle.rad_of >= 0 THEN Degrees(360) - azimuth ELSE azimuth

\* if hour_angle > 0: azimuth = 360 - azimuth
adjust_azimuth(hour_angle, azimuth) ==
    IF hour_angle.rad_of > 0 THEN Degrees(360) - azimuth ELSE azimuth

\* returns (elevation, azimuth) in degrees; math.asin is handed the sum as
\* it is, math.acos the clipped quotient
solar_elevation_azimuth(self, day_of_year, local_solar_time) ==
    Local({ IF a.state = "raised" THEN a
            ELSE Local({ IF b.state = "raised" THEN b
                         ELSE Return([elevation |-> degrees(a.value),
                                      azimuth |-> adjust_azimuth(
                                          radians(solar_hour_angle(
                                              self, local_solar_time)),
                                          degrees(b.value))]) :
                         b \in {math_acos(np_clip(
                                   cos_azimuth(self, day_of_year,
                                               local_solar_time, degrees(a.value)),
                                   -Ratio(1), Ratio(1)))} }) :
            a \in {math_asin(sin_elevation(self, day_of_year,
                                           local_solar_time))} })

\* 360 * (day_of_year - 81) / 365: the angle b, in angle units
EotAngle(day_of_year) ==
    Local({ Sgn(n) * ((Abs(n) \div 365) * Degrees(1)
                      + ((Abs(n) % 365) * Degrees(1)) \div 365) :
            n \in {360 * (day_of_year - 81)} })

\* 9.87 sin(2b) - 7.53 cos(b) - 1.5 sin(b), in 1/10000 minute
equation_of_time(self, day_of_year) ==
    Local({ FMul(98700, math_sin(radians(2 * b)), Ratio(1))
            - FMul(75300, math_cos(radians(b)), Ratio(1))
            - FMul(15000, math_sin(radians(b)), Ratio(1)) :
            b \in {EotAngle(day_of_year)} })

\* the dictionary of one snapshot; an exception of solar_elevation_azimuth
\* or of sunrise_sunset_times leaves the method
get_celestial_coordinates(self, day_of_year, local_solar_time) ==
    Local({ IF position.state = "raised" THEN position
            ELSE IF times.state = "raised" THEN times
            ELSE Return([latitude |-> self.latitude,
                         longitude |-> self.longitude,
                         day_of_year |-> day_of_year,
                         local_solar_time |-> local_solar_time,
                         solar_declination |-> solar_declination(self, day_of_year),
                         equation_of_time |-> equation_of_time(self, day_of_year),
                         hour_angle |-> solar_hour_angle(self, local_solar_time),
                         solar_elevation |-> position.value.elevation,
                         solar_azimuth |-> position.value.azimuth,
                         sunrise_time |-> times.value.sunrise,
                         sunset_time |-> times.value.sunset,
                         daylight_hours |->
                            times.value.sunset - times.value.sunrise]) :
            position \in {solar_elevation_azimuth(self, day_of_year,
                                                  local_solar_time)},
            times \in {sunrise_sunset_times(self, day_of_year)} })

(***************************************************************************)
(* Site orchestrator (yantras.py, class YantraCalculator)                  *)
(***************************************************************************)
\* insertion order of self.yantras, the order calculate_all_yantras iterates in
YantraNames == <<"samrat", "rama", "digamsa", "dhruva">>

YantraCalculator(latitude, longitude, scale) ==
    [latitude |-> latitude, longitude |-> longitude, scale |-> scale,
     astro_calc |-> AstronomicalCalculator(latitude, longitude),
     yantras |-> [samrat |-> SamratYantra(latitude, longitude, scale),
                  rama |-> RamaYantra(latitude, longitude, scale),
                  digamsa |-> DigamsaYantra(latitude, longitude, scale),
                  dhruva |-> DhruvaYantra(latitude, longitude, scale)]]

\* the rama and dhruva entries bound to each other's class
calculate_dimensions_Crossed(name, yantra) ==
    CASE name = "samrat" -> SamratYantra_calculate_dimensions(yantra)
      [] name = "rama" -> DhruvaYantra_calculate_dimensions(yantra)
      [] name = "digamsa" -> DigamsaYantra_calculate_dimensions(yantra)
      [] name = "dhruva" -> RamaYantra_calculate_dimensions(yantra)

\* yantra.calculate_dimensions(), dispatched on the class of the instrument
calculate_dimensions(name, yantra) ==
    CASE name = "samrat" -> SamratYantra_calculate_dimensions(yantra)
      [] name = "rama" -> RamaYantra_calculate_dimensions(yantra)
      [] name = "digamsa" -> DigamsaYantra_calculate_dimensions(yantra)
      [] name = "dhruva" -> DhruvaYantra_calculate_dimensions(yantra)

\* the for loop over self.yantras.items(), from item i on: the exception of
\* an instrument leaves the loop and the local results with it
RECURSIVE calculate_all_loop_SkipFailed(_, _, _, _)
calculate_all_loop_SkipFailed(self, items, i, results) ==
    IF i > Len(items) THEN Return(results)
    ELSE LET name == items[i]
             r == calculate_dimensions(name, self.yantras[name])
         IN IF r.state = "raised"
            THEN calculate_all_loop_SkipFailed(self, items, i + 1, results)
            ELSE calculate_all_loop_SkipFailed(self, items, i + 1,
                                               results @@ (name :> r.value))

RECURSIVE calculate_all_loop(_, _, _, _)
calculate_all_loop(self, items, i, results) ==
    IF i > Len(items) THEN Return(results)
    ELSE LET name == items[i]
             r == calculate_dimensions(name, self.yantras[name])
         IN IF r.state = "raised" THEN r
            ELSE calculate_all_loop(self, items, i + 1, results @@ (name :> r.value))

calculate_all_yantras(self) == calculate_all_loop(self, YantraNames, 1, <<>>)

(***************************************************************************)
(* Direct use of the library (as tests/test_yantras.py does): two          *)
(* calculator objects, each constructed and then asked for all yantras.    *)
(***************************************************************************)
Slots == {1, 2}
MaxCalls == 2
LatSet == {-900000, -450000, 0, 269247, 286269, 450000, 900000}
LonSet == {758244, 772164}
ScaleSet == {1, 5, 10, 20}

NoCalculator == [made |-> FALSE]
NotHeld == [holds |-> FALSE]
Threads == {1, 2}
Idle == [pc |-> "idle"]
Made(c) == [made |-> TRUE, self |-> c]

NewCalculator(i, latitude, longitude, scale) ==
    /\ calc' = [calc EXCEPT ![i] = Made(YantraCalculator(latitude, longitude, scale))]
    /\ out' = [out EXCEPT ![i] = NotCalled]
    /\ ncalls' = [ncalls EXCEPT ![i] = 0]
    /\ UNCHANGED <<request, response, constructed, invoked, held, threads,
                   astro_calc, astro_out, analysis>>

\* the calculator as calculate_all_yantras leaves it: the method assigns
\* to its local results only
AfterCalculateAll_Rescaled(self) ==
    [self EXCEPT !.scale = self.scale + ScaleOne,
                 !.yantras = YantraCalculator(self.latitude, self.longitude,
                                              self.scale + ScaleOne).yantras]

AfterCalculateAll(self) == self

CalculateAll(i) ==
    /\ calc[i].made
    /\ ncalls[i] < MaxCalls
    /\ out' = [out EXCEPT ![i] = calculate_all_yantras(calc[i].self)]
    /\ calc' = [calc EXCEPT ![i] = Made(AfterCalculateAll(calc[i].self))]
    /\ ncalls' = [ncalls EXCEPT ![i] = ncalls[i] + 1]
    /\ UNCHANGED <<request, response, constructed, invoked, held, threads,
                   astro_calc, astro_out, analysis>>

(***************************************************************************)
(* Site analysis and the registry of historical sites (yantras.py)         *)
(***************************************************************************)
\* the locals of dd_to_dms with the sign left on the value
dd_to_dms_parts_NoAbs(decimal_deg, is_latitude) ==
    LET direction == IF is_latitude
                     THEN (IF decimal_deg >= 0 THEN "N" ELSE "S")
                     ELSE (IF decimal_deg >= 0 THEN "E" ELSE "W")
        a == decimal_deg
        degs == TDiv(a, Degrees(1))
        minutes == TDiv((a - degs * Degrees(1)) * 60, Degrees(1))
        seconds == ((a - degs * Degrees(1)) * 60 - minutes * Degrees(1)) * 60
    IN [direction |-> direction, degrees |-> degs, minutes |-> minutes,
        seconds |-> seconds]

\* the locals of dd_to_dms: direction from the sign, then abs(), int() of
\* the value and of its fraction in minutes; seconds in 1/10000 second
dd_to_dms_parts(decimal_deg, is_latitude) ==
    LET direction == IF is_latitude
                     THEN (IF decimal_deg >= 0 THEN "N" ELSE "S")
                     ELSE (IF decimal_deg >= 0 THEN "E" ELSE "W")
        a == Abs(decimal_deg)
        degs == TDiv(a, Degrees(1))
        minutes == TDiv((a - degs * Degrees(1)) * 60, Degrees(1))
        seconds == ((a - degs * Degrees(1)) * 60 - minutes * Degrees(1)) * 60
    IN [direction |-> direction, degrees |-> degs, minutes |-> minutes,
        seconds |-> seconds]

\* f"{degrees}°{minutes}'{seconds:.1f}\"{direction}": the four parts of the
\* string, the seconds rounded to tenths
dd_to_dms(decimal_deg, is_latitude) ==
    LET p == dd_to_dms_parts(decimal_deg, is_latitude)
    IN <<p.degrees, p.minutes, Fmt1(p.seconds), p.direction>>

decimal_to_dms(self, lat, lon) ==
    [latitude_dms |-> dd_to_dms(lat, TRUE),
     longitude_dms |-> dd_to_dms(lon, FALSE)]

\* the three snapshots are taken first, in this order; the exception of one
\* leaves the method
get_site_analysis(self) ==
    Local({
       IF summer_solstice.state = "raised" THEN summer_solstice
       ELSE IF winter_solstice.state = "raised" THEN winter_solstice
       ELSE IF equinox.state = "raised" THEN equinox
       ELSE Return(
    [location |-> [latitude |-> self.latitude, longitude |-> self.longitude,
                   coordinates_dms |->
                      decimal_to_dms(self, self.latitude, self.longitude)],
     astronomical_data |->
        [summer_solstice |-> summer_solstice.value,
         winter_solstice |-> winter_solstice.value,
         spring_equinox |-> equinox.value,
         max_sun_elevation |-> Degrees(90) - Abs(self.latitude - 234400),
         min_sun_elevation |-> Degrees(90) - Abs(self.latitude + 234400)],
     construction_considerations |->
        [magnetic_declination |-> "Requires local survey",
         foundation_requirements |-> "Stable, level stone foundation",
         alignment_precision |-> "+-1 arc-minute for optimal accuracy",
         material_weathering |-> "Consider local climate conditions"]]) :
       summer_solstice \in
          {get_celestial_coordinates(self.astro_calc, 172, Hours(12))},
       winter_solstice \in
          {get_celestial_coordinates(self.astro_calc, 355, Hours(12))},
       equinox \in
          {get_celestial_coordinates(self.astro_calc, 80, Hours(12))} })

\* the dict literal of get_historical_sites
SitesLiteral ==
    [Jaipur_Jantar_Mantar |->
        [latitude |-> 269247, longitude |-> 758244,
         description |-> "Largest and best-preserved yantra collection"],
     Delhi_Jantar_Mantar |->
        [latitude |-> 286269, longitude |-> 772164,
         description |-> "Historic observatory in the capital"],
     Varanasi_Jantar_Mantar |->
        [latitude |-> 253181, longitude |-> 830104,
         description |-> "Ancient astronomical observatory"],
     Ujjain_Jantar_Mantar |->
        [latitude |-> 231793, longitude |-> 757849,
         description |-> "Reference point for ancient Indian timekeeping"],
     Mathura_Yantra |->
        [latitude |-> 274924, longitude |-> 776737,
         description |-> "Lesser-known but historically significant site"]]

\* one module-level dict handed out by reference: what a caller holds is
\* what the next call returns
get_historical_sites_Shared == IF held.holds THEN held.sites ELSE SitesLiteral

\* every call evaluates the literal anew
get_historical_sites == SitesLiteral

\* a caller keeps the mapping a call returned to it
HoldSites ==
    /\ held' = [holds |-> TRUE, sites |-> get_historical_sites]
    /\ UNCHANGED <<request, response, constructed, invoked, calc, out, ncalls,
                   threads, astro_calc, astro_out, analysis>>

\* the caller deletes an entry of the mapping it holds: del sites[name]
DeleteEntry(name) ==
    /\ held.holds
    /\ name \in DOMAIN held.sites
    /\ held' = [holds |-> TRUE,
                sites |-> [n \in DOMAIN held.sites \ {name} |-> held.sites[n]]]
    /\ UNCHANGED <<request, response, constructed, invoked, calc, out, ncalls,
                   threads, astro_calc, astro_out, analysis>>

\* the caller overwrites a coordinate: sites[name]['latitude'] = 0.0
OverwriteEntry(name) ==
    /\ held.holds
    /\ name \in DOMAIN held.sites
    /\ held.sites[name].latitude # 0
    /\ held' = [holds |-> TRUE,
                sites |-> [held.sites EXCEPT ![name].latitude = 0]]
    /\ UNCHANGED <<request, response, constructed, invoked, calc, out, ncalls,
                   threads, astro_calc, astro_out, analysis>>

(***************************************************************************)
(* HTTP handlers (app.py).  A handler maps the request to its response;    *)
(* the model also records the calculators it constructed and the           *)
(* calculator methods it invoked on the way.                               *)
(***************************************************************************)
NoBody == [nothing |-> "nothing"]

Reply(status, success, error, body, made, calls) ==
    [response |-> [status |-> status, success |-> success, error |-> error,
                   body |-> body],
     constructed |-> made, invoked |-> calls]

\* jsonify({'error': msg}), code : the early returns of the handlers
ErrorReply(status, msg) == Reply(status, "absent", <<msg>>, NoBody, <<>>, {})

\* the except clause: jsonify({'success': False, 'error': ...}), 500
ExceptReply(msg, made, calls) == Reply(500, "false", msg, NoBody, made, calls)

\* the loop that turns every YantraSpecs object into a dictionary
Serialise(yantra_specs) ==
    [name \in DOMAIN yantra_specs |->
        [name |-> yantra_specs[name].name,
         description |-> yantra_specs[name].description,
         dimensions |-> yantra_specs[name].dimensions,
         angles |-> yantra_specs[name].angles,
         materials |-> yantra_specs[name].materials,
         construction_notes |-> yantra_specs[name].construction_notes]]

Triple(calculator) ==
    [latitude |-> calculator.latitude, longitude |-> calculator.longitude,
     scale |-> calculator.scale]

\* calculate_yantras without the range check of scale
calculate_yantras_ScaleUnchecked(data) ==
    IF DOMAIN data = {} THEN ErrorReply(400, "No data provided")
    ELSE IF "latitude" \notin DOMAIN data \/ "longitude" \notin DOMAIN data
    THEN ErrorReply(400, "Latitude and longitude are required")
    ELSE
    LET latitude == data["latitude"]
        longitude == data["longitude"]
        scale == IF "scale" \in DOMAIN data THEN data["scale"] ELSE ScaleOne
    IN
    IF ~(Degrees(-90) <= latitude /\ latitude <= Degrees(90))
    THEN ErrorReply(400, "Latitude must be between -90 and 90 degrees")
    ELSE IF ~(Degrees(-180) <= longitude /\ longitude <= Degrees(180))
    THEN ErrorReply(400, "Longitude must be between -180 and 180 degrees")
    ELSE
    LET calculator == YantraCalculator(latitude, longitude, scale)
        yantra_specs == calculate_all_yantras(calculator)
        site_analysis == get_site_analysis(calculator)
    IN
    IF yantra_specs.state = "raised"
    THEN ExceptReply(<<"Calculation error", yantra_specs.value>>,
                     <<Triple(calculator)>>, {"calculate_all_yantras"})
    ELSE IF site_analysis.state = "raised"
    THEN ExceptReply(<<"Calculation error", site_analysis.value>>,
                     <<Triple(calculator)>>,
                     {"calculate_all_yantras", "get_site_analysis"})
    ELSE Reply(200, "true", <<>>,
               [location |-> [latitude |-> latitude, longitude |-> longitude,
                              scale |-> scale],
                yantras |-> Serialise(yantra_specs.value),
                site_analysis |-> site_analysis.value,
                timestamp |-> "2024-01-01T00:00:00Z"],
               <<Triple(calculator)>>,
               {"calculate_all_yantras", "get_site_analysis"})

\* POST /api/calculate.  data is the JSON object: a key that is absent from
\* DOMAIN data is a key for which data.get returns None (or the default).
calculate_yantras(data) ==
    IF DOMAIN data = {} THEN ErrorReply(400, "No data provided")
    ELSE IF "latitude" \notin DOMAIN data \/ "longitude" \notin DOMAIN data
    THEN ErrorReply(400, "Latitude and longitude are required")
    ELSE
    LET latitude == data["latitude"]
        longitude == data["longitude"]
        scale == IF "scale" \in DOMAIN data THEN data["scale"] ELSE ScaleOne
    IN
    IF ~(Degrees(-90) <= latitude /\ latitude <= Degrees(90))
    THEN ErrorReply(400, "Latitude must be between -90 and 90 degrees")
    ELSE IF ~(Degrees(-180) <= longitude /\ longitude <= Degrees(180))
    THEN ErrorReply(400, "Longitude must be between -180 and 180 degrees")
    ELSE IF ~(1 <= scale /\ scale <= 100)
    THEN ErrorReply(400, "Scale must be between 0.1 and 10.0")
    ELSE
    LET calculator == YantraCalculator(latitude, longitude, scale)
        yantra_specs == calculate_all_yantras(calculator)
        site_analysis == get_site_analysis(calculator)
    IN
    IF yantra_specs.state = "raised"
    THEN ExceptReply(<<"Calculation error", yantra_specs.value>>,
                     <<Triple(calculator)>>, {"calculate_all_yantras"})
    ELSE IF site_analysis.state = "raised"
    THEN ExceptReply(<<"Calculation error", site_analysis.value>>,
                     <<Triple(calculator)>>,
                     {"calculate_all_yantras", "get_site_analysis"})
    ELSE Reply(200, "true", <<>>,
               [location |-> [latitude |-> latitude, longitude |-> longitude,
                              scale |-> scale],
                yantras |-> Serialise(yantra_specs.value),
                site_analysis |-> site_analysis.value,
                timestamp |-> "2024-01-01T00:00:00Z"],
               <<Triple(calculator)>>,
               {"calculate_all_yantras", "get_site_analysis"})

\* GET /api/historical-sites
get_historical_sites_api ==
    Reply(200, "true", <<>>, [sites |-> get_historical_sites], <<>>, {})

\* get_site_details without the membership test: sites[site_name] raises
get_site_details_NoMembershipTest(site_name) ==
    LET sites == get_historical_sites IN
    IF site_name \notin DOMAIN sites
    THEN ExceptReply(<<"KeyError">>, <<>>, {})
    ELSE
    LET site_data == sites[site_name]
        calculator == YantraCalculator(site_data.latitude, site_data.longitude,
                                       ScaleOne)
        yantra_specs == calculate_all_yantras(calculator)
        site_analysis == get_site_analysis(calculator)
    IN
    IF yantra_specs.state = "raised"
    THEN ExceptReply(<<yantra_specs.value>>, <<Triple(calculator)>>,
                     {"calculate_all_yantras"})
    ELSE IF site_analysis.state = "raised"
    THEN ExceptReply(<<site_analysis.value>>, <<Triple(calculator)>>,
                     {"calculate_all_yantras", "get_site_analysis"})
    ELSE Reply(200, "true", <<>>,
               [site_name |-> site_name,
                site_info |-> site_data,
                yantras |-> Serialise(yantra_specs.value),
                site_analysis |-> site_analysis.value],
               <<Triple(calculator)>>,
               {"calculate_all_yantras", "get_site_analysis"})

\* GET /api/site-details/<site_name>
get_site_details(site_name) ==
    LET sites == get_historical_sites IN
    IF site_name \notin DOMAIN sites THEN ErrorReply(404, "Site not found")
    ELSE
    LET site_data == sites[site_name]
        calculator == YantraCalculator(site_data.latitude, site_data.longitude,
                                       ScaleOne)
        yantra_specs == calculate_all_yantras(calculator)
        site_analysis == get_site_analysis(calculator)
    IN
    IF yantra_specs.state = "raised"
    THEN ExceptReply(<<yantra_specs.value>>, <<Triple(calculator)>>,
                     {"calculate_all_yantras"})
    ELSE IF site_analysis.state = "raised"
    THEN ExceptReply(<<site_analysis.value>>, <<Triple(calculator)>>,
                     {"calculate_all_yantras", "get_site_analysis"})
    ELSE Reply(200, "true", <<>>,
               [site_name |-> site_name,
                site_info |-> site_data,
                yantras |-> Serialise(yantra_specs.value),
                site_analysis |-> site_analysis.value],
               <<Triple(calculator)>>,
               {"calculate_all_yantras", "get_site_analysis"})

\* the pole angle read from the neighbouring key of the Dhruva angles
ComparisonEntry_CelestialPole(site_data, yantra_specs) ==
    [location |-> site_data,
     samrat_gnomon_height |-> yantra_specs["samrat"].dimensions.gnomon_height,
     samrat_gnomon_angle |-> yantra_specs["samrat"].angles.gnomon_inclination,
     rama_base_radius |-> yantra_specs["rama"].dimensions.base_radius,
     dhruva_pole_angle |-> yantra_specs["dhruva"].angles.celestial_pole_angle]

\* the entry compare_sites stores for one known site
ComparisonEntry(site_data, yantra_specs) ==
    [location |-> site_data,
     samrat_gnomon_height |-> yantra_specs["samrat"].dimensions.gnomon_height,
     samrat_gnomon_angle |-> yantra_specs["samrat"].angles.gnomon_inclination,
     rama_base_radius |-> yantra_specs["rama"].dimensions.base_radius,
     dhruva_pole_angle |-> yantra_specs["dhruva"].angles.pole_inclination_angle]

\* the loop of compare_sites without the membership test: an unknown
\* identifier raises KeyError
RECURSIVE compare_loop_UnknownRaises(_, _, _, _)
compare_loop_UnknownRaises(site_names, i, comparison_results, made) ==
    IF i > Len(site_names)
    THEN [outcome |-> Return(comparison_results), constructed |-> made]
    ELSE
    LET site_name == site_names[i]
        historical_sites == get_historical_sites
    IN
    IF site_name \in DOMAIN historical_sites
    THEN LET site_data == historical_sites[site_name]
             calculator == YantraCalculator(site_data.latitude,
                                            site_data.longitude, ScaleOne)
             yantra_specs == calculate_all_yantras(calculator)
             made2 == Append(made, Triple(calculator))
         IN IF yantra_specs.state = "raised"
            THEN [outcome |-> yantra_specs, constructed |-> made2]
            ELSE compare_loop_UnknownRaises(site_names, i + 1,
                    (site_name :> ComparisonEntry(site_data, yantra_specs.value))
                        @@ comparison_results,
                    made2)
    ELSE [outcome |-> Raise("KeyError"), constructed |-> made]

\* the for loop of compare_sites over site_names[i..]
RECURSIVE compare_loop(_, _, _, _)
compare_loop(site_names, i, comparison_results, made) ==
    IF i > Len(site_names)
    THEN [outcome |-> Return(comparison_results), constructed |-> made]
    ELSE
    LET site_name == site_names[i]
        historical_sites == get_historical_sites
    IN
    IF site_name \in DOMAIN historical_sites
    THEN LET site_data == historical_sites[site_name]
             calculator == YantraCalculator(site_data.latitude,
                                            site_data.longitude, ScaleOne)
             yantra_specs == calculate_all_yantras(calculator)
             made2 == Append(made, Triple(calculator))
         IN IF yantra_specs.state = "raised"
            THEN [outcome |-> yantra_specs, constructed |-> made2]
            ELSE compare_loop(site_names, i + 1,
                    (site_name :> ComparisonEntry(site_data, yantra_specs.value))
                        @@ comparison_results,
                    made2)
    ELSE compare_loop(site_names, i + 1, comparison_results, made)

\* POST /api/compare-sites
compare_sites(data) ==
    LET site_names == IF "sites" \in DOMAIN data THEN data["sites"] ELSE <<>> IN
    IF site_names = <<>>
    THEN ErrorReply(400, "No sites specified for comparison")
    ELSE
    LET done == compare_loop(site_names, 1, <<>>, <<>>)
        calls == IF done.constructed = <<>> THEN {} ELSE {"calculate_all_yantras"}
    IN
    IF done.outcome.state = "raised"
    THEN ExceptReply(<<done.outcome.value>>, done.constructed, calls)
    ELSE Reply(200, "true", <<>>, [comparison |-> done.outcome.value],
               done.constructed, calls)

(***************************************************************************)
(* The server: one action per endpoint.  Requests carry JSON numbers (or   *)
(* leave a key out); site names are strings.                               *)
(***************************************************************************)
MaxSites == 2

ApiLatSet == LatSet \cup {-900001, -4035, 900001}
ApiLonSet == {-1800001, -1800000, 758244, 1800000, 1800001}
ApiScaleSet == {0, 1, 10, 100, 101}

FieldValues(k) ==
    CASE k = "latitude" -> ApiLatSet
      [] k = "longitude" -> ApiLonSet
      [] k = "scale" -> ApiScaleSet

\* the JSON objects over a subset of the three keys
CalculateData ==
    UNION { {f \in [D -> ApiLatSet \cup ApiLonSet \cup ApiScaleSet] :
                \A k \in D : f[k] \in FieldValues(k)} :
            D \in SUBSET {"latitude", "longitude", "scale"} }

SiteNames == DOMAIN SitesLiteral \cup {"Nonexistent_Site"}

SiteLists == UNION { [1..n -> SiteNames] : n \in 0..MaxSites }

CompareData == {[sites |-> l] : l \in SiteLists} \cup {<<>>}

\* the routing table of the application: the handler of an endpoint
Route(endpoint, data) ==
    CASE endpoint = "calculate" -> calculate_yantras(data)
      [] endpoint = "historical_sites" -> get_historical_sites_api
      [] endpoint = "site_details" -> get_site_details(data)
      [] endpoint = "compare_sites" -> compare_sites(data)

\* one request served: the handler runs to its response
Handle(endpoint, data) ==
    /\ request' = [endpoint |-> endpoint, data |-> data]
    /\ \E r \in {Route(request'.endpoint, request'.data)} :
          /\ response' = r.response
          /\ constructed' = r.constructed
          /\ invoked' = r.invoked
    /\ UNCHANGED <<calc, out, ncalls, held, threads, astro_calc, astro_out,
                   analysis>>

Calculate(data) == Handle("calculate", data)

HistoricalSites == Handle("historical_sites", <<>>)

SiteDetails(site_name) == Handle("site_details", site_name)

CompareSites(data) == Handle("compare_sites", data)

Init ==
    /\ request = [endpoint |-> "none", data |-> <<>>]
    /\ response = [status |-> 0, success |-> "absent", error |-> <<>>,
                   body |-> NoBody]
    /\ constructed = <<>>
    /\ invoked = {}
    /\ calc = [i \in Slots |-> NoCalculator]
    /\ out = [i \in Slots |-> NotCalled]
    /\ ncalls = [i \in Slots |-> 0]
    /\ held = NotHeld
    /\ threads = [t \in Threads |-> Idle]
    /\ astro_calc = NoCalculator
    /\ astro_out = NotCalled
    /\ analysis = NotCalled

Next ==
    \/ \E data \in CalculateData : Calculate(data)
    \/ HistoricalSites
    \/ \E site_name \in SiteNames : SiteDetails(site_name)
    \/ \E data \in CompareData : CompareSites(data)

Spec == Init /\ [][Next]_vars

LibNext ==
    \/ \E i \in Slots, latitude \in LatSet, longitude \in LonSet, scale \in ScaleSet :
          NewCalculator(i, latitude, longitude, scale)
    \/ \E i \in Slots : CalculateAll(i)

LibSpec == Init /\ [][LibNext]_vars

(***************************************************************************)
(* The server under concurrent requests.  app.run serves each request in   *)
(* a thread of its own; a handler reads its input through flask's          *)
(* request, which is bound to the request context of the running thread,   *)
(* and works on objects it constructs itself.  The variable request is     *)
(* the request the server received last.                                   *)
(***************************************************************************)
\* a global that holds the request received last
CurrentRequest_Global(t) == request

\* flask.request as the handler running in thread t sees it
CurrentRequest(t) == threads[t].request

ConcValues == {0, 269247, 758244, ScaleOne}
ConcCalculateData == {d \in CalculateData : \A k \in DOMAIN d : d[k] \in ConcValues}
ConcSiteLists ==
    {l \in SiteLists :
        \A k \in DOMAIN l : l[k] \in {"Jaipur_Jantar_Mantar", "Nonexistent_Site"}}
ConcCompareData == {[sites |-> l] : l \in ConcSiteLists} \cup {<<>>}

\* the server accepts a request and hands it to thread t
Receive(t, endpoint, data) ==
    /\ threads[t].pc = "idle"
    /\ threads' = [threads EXCEPT
                      ![t] = [pc |-> "handling",
                              request |-> [endpoint |-> endpoint, data |-> data]]]
    /\ request' = [endpoint |-> endpoint, data |-> data]
    /\ UNCHANGED <<response, constructed, invoked, calc, out, ncalls, held,
                   astro_calc, astro_out, analysis>>

\* the handler of thread t runs to its response
Serve(t) ==
    /\ threads[t].pc = "handling"
    /\ \E r \in {Route(CurrentRequest(t).endpoint, CurrentRequest(t).data)} :
          /\ threads' = [threads EXCEPT
                            ![t] = [pc |-> "done", request |-> threads[t].request,
                                    response |-> r.response]]
          /\ response' = r.response
          /\ constructed' = r.constructed
          /\ invoked' = r.invoked
    /\ UNCHANGED <<request, calc, out, ncalls, held, astro_calc, astro_out,
                   analysis>>

\* the response of thread t goes out
Deliver(t) ==
    /\ threads[t].pc = "done"
    /\ threads' = [threads EXCEPT ![t] = Idle]
    /\ UNCHANGED <<request, response, constructed, invoked, calc, out, ncalls,
                   held, astro_calc, astro_out, analysis>>

ConcNext ==
    \/ \E t \in Threads, data \in ConcCalculateData : Receive(t, "calculate", data)
    \/ \E t \in Threads : Receive(t, "historical_sites", <<>>)
    \/ \E t \in Threads, site_name \in SiteNames : Receive(t, "site_details", site_name)
    \/ \E t \in Threads, data \in ConcCompareData : Receive(t, "compare_sites", data)
    \/ \E t \in Threads : Serve(t)
    \/ \E t \in Threads : Deliver(t)

ConcSpec == Init /\ [][ConcNext]_vars

(***************************************************************************)
(* The registry among callers that keep and change what it returned        *)
(***************************************************************************)
RegNext ==
    \/ HoldSites
    \/ \E name \in DOMAIN SitesLiteral : DeleteEntry(name)
    \/ \E name \in DOMAIN SitesLiteral : OverwriteEntry(name)
    \/ HistoricalSites
    \/ \E site_name \in SiteNames : SiteDetails(site_name)
    \/ \E data \in ConcCompareData : CompareSites(data)

RegSpec == Init /\ [][RegNext]_vars

(***************************************************************************)
(* Direct use of the astronomy module: a calculator for a place, asked     *)
(* for the declination or for sunrise and sunset day after day.            *)
(***************************************************************************)
AstroLatSet ==
    {-900000, -665690, -450000, 0, 269247, 450000, 665690, 700000, 900000}
AstroLonSet == {758244}
Days == 1..366

NewAstronomicalCalculator(latitude, longitude) ==
    /\ astro_calc' = Made(AstronomicalCalculator(latitude, longitude))
    /\ astro_out' = NotCalled
    /\ UNCHANGED <<request, response, constructed, invoked, calc, out, ncalls,
                   held, threads, analysis>>

\* the caller walks through the year: for day in range(...)
NextDay == IF astro_out.state = "none" THEN 1 ELSE astro_out.day_of_year + 1

SolarDeclination(day_of_year) ==
    /\ astro_calc.made
    /\ day_of_year = NextDay
    /\ astro_out' = [state |-> "returned", method |-> "solar_declination",
                     day_of_year |-> day_of_year,
                     value |-> solar_declination(astro_calc.self, day_of_year)]
    /\ UNCHANGED <<request, response, constructed, invoked, calc, out, ncalls,
                   held, threads, astro_calc, analysis>>

SunriseSunsetTimes(day_of_year) ==
    /\ astro_calc.made
    /\ day_of_year = NextDay
    /\ \E r \in {sunrise_sunset_times(astro_calc.self, day_of_year)} :
          astro_out' = [state |-> r.state, method |-> "sunrise_sunset_times",
                        day_of_year |-> day_of_year, value |-> r.value]
    /\ UNCHANGED <<request, response, constructed, invoked, calc, out, ncalls,
                   held, threads, astro_calc, analysis>>

\* local solar times asked for: the hours around noon and the instants next
\* to it
SolarTimes ==
    {Hours(0), Hours(6), Hours(9), Hours(12) - 1, Hours(12), Hours(12) + 1,
     Hours(15), Hours(18), Hours(24)}

\* the position of the sun on the day whose declination was just asked for,
\* the order of calls in get_celestial_coordinates
SolarElevationAzimuth(day_of_year, local_solar_time) ==
    /\ astro_calc.made
    /\ astro_out.state = "returned" /\ astro_out.method = "solar_declination"
    /\ day_of_year = astro_out.day_of_year
    /\ \E r \in {solar_elevation_azimuth(astro_calc.self, day_of_year,
                                         local_solar_time)} :
          astro_out' = [state |-> r.state, method |-> "solar_elevation_azimuth",
                        day_of_year |-> day_of_year,
                        local_solar_time |-> local_solar_time, value |-> r.value]
    /\ UNCHANGED <<request, response, constructed, invoked, calc, out, ncalls,
                   held, threads, astro_calc, analysis>>

AstroNext ==
    \/ \E latitude \in AstroLatSet, longitude \in AstroLonSet :
          NewAstronomicalCalculator(latitude, longitude)
    \/ \E day_of_year \in Days : SolarDeclination(day_of_year)
    \/ \E day_of_year \in Days : SunriseSunsetTimes(day_of_year)
    \/ \E day_of_year \in Days, local_solar_time \in SolarTimes :
          SolarElevationAzimuth(day_of_year, local_solar_time)

AstroSpec == Init /\ [][AstroNext]_vars

(***************************************************************************)
(* Site analysis asked of a calculator directly                            *)
(***************************************************************************)
SiteLatSet == {-900000, -599999, -269247, -5, 0, 5, 269247, 599999, 900000}
SiteLonSet == {-1799999, -758244, 0, 758244, 1800000}

\* analysis = calculator.get_site_analysis()
SiteAnalysis(i) ==
    /\ calc[i].made
    /\ analysis' = get_site_analysis(calc[i].self)
    /\ UNCHANGED <<request, response, constructed, invoked, calc, out, ncalls,
                   held, threads, astro_calc, astro_out>>

SiteNext ==
    \/ \E latitude \in SiteLatSet, longitude \in SiteLonSet :
          NewCalculator(1, latitude, longitude, ScaleOne)
    \/ SiteAnalysis(1)

SiteSpec == Init /\ [][SiteNext]_vars

(***************************************************************************)
(* Properties of the HTTP boundary (checked under Spec)                    *)
(***************************************************************************)
Has(data, k) == k \in DOMAIN data

\* the request misses latitude or longitude, or carries a value out of range
InvalidCalculate(data) ==
    \/ ~Has(data, "latitude")
    \/ ~Has(data, "longitude")
    \/ data["latitude"] < Degrees(-90) \/ data["latitude"] > Degrees(90)
    \/ data["longitude"] < Degrees(-180) \/ data["longitude"] > Degrees(180)
    \/ (Has(data, "scale") /\ (data["scale"] < 1 \/ data["scale"] > 100))

\* C1: a calculate request with a missing latitude or longitude, or with
\* latitude, longitude or scale out of range, is answered 400, and no
\* calculator was constructed and no computation invoked for it.
C1_ValidationBeforeComputation ==
    (request.endpoint = "calculate" /\ InvalidCalculate(request.data))
        => /\ response.status = 400
           /\ constructed = <<>>
           /\ invoked = {}

\* a request rejected by the last check alone: only its scale is out of range
C1_Witness ==
    /\ request.endpoint = "calculate"
    /\ DOMAIN request.data = {"latitude", "longitude", "scale"}
    /\ request.data["latitude"] = 269247
    /\ request.data["longitude"] = 758244
    /\ request.data["scale"] = 101
    /\ response.status = 400
    /\ response.error = <<"Scale must be between 0.1 and 10.0">>

\* C4: a site-details lookup of an unregistered name is answered 404 'Site
\* not found' (not the 500 of a failed computation) without a calculator;
\* the lookup of a registered name is never answered 404.
C4_UnknownSiteNotFound ==
    request.endpoint = "site_details"
        => IF request.data \notin DOMAIN get_historical_sites
           THEN /\ response.status = 404
                /\ response.error = <<"Site not found">>
                /\ response.success # "false"
                /\ constructed = <<>>
                /\ invoked = {}
           ELSE response.status # 404

C4_Witness ==
    /\ request.endpoint = "site_details"
    /\ request.data = "Nonexistent_Site"
    /\ response.status = 404

\* the identifiers of a list that are in the registry
KnownIn(site_names) ==
    {site_names[i] : i \in DOMAIN site_names} \cap DOMAIN get_historical_sites

\* the entry compare-sites gives a registered site when asked for it alone
EntryAlone(site_name) ==
    compare_sites([sites |-> <<site_name>>]).response.body.comparison[site_name]

\* C5: every non-empty list sent to compare-sites succeeds, and the
\* comparison has an entry for exactly the registered identifiers of the
\* list, each entry being the one the site gets when compared alone.
C5_UnknownSitesSkipped ==
    (/\ request.endpoint = "compare_sites"
     /\ Has(request.data, "sites")
     /\ request.data["sites"] # <<>>)
        => /\ response.status = 200
           /\ response.success = "true"
           /\ DOMAIN response.body.comparison = KnownIn(request.data["sites"])
           /\ \A n \in KnownIn(request.data["sites"]) :
                 response.body.comparison[n] = EntryAlone(n)
           /\ Len(constructed) =
                 Cardinality({i \in DOMAIN request.data["sites"] :
                     request.data["sites"][i] \in DOMAIN get_historical_sites})

\* a list with an unknown identifier before a known one
C5_Witness ==
    /\ request.endpoint = "compare_sites"
    /\ Has(request.data, "sites")
    /\ request.data["sites"] = <<"Nonexistent_Site", "Delhi_Jantar_Mantar">>
    /\ response.status = 200
    /\ DOMAIN response.body.comparison = {"Delhi_Jantar_Mantar"}

(***************************************************************************)
(* Properties of the instrument models and the orchestrator (checked       *)
(* under LibSpec)                                                          *)
(***************************************************************************)
Called(i) == calc[i].made /\ out[i].state # "none"
Returned(i) == calc[i].made /\ out[i].state = "returned"
InstrumentNames == {YantraNames[k] : k \in DOMAIN YantraNames}

\* the Samrat model of a calculator fails
SamratFails(self) ==
    SamratYantra_calculate_dimensions(self.yantras["samrat"]).state = "raised"

\* the orders in which the four instruments can be iterated
Orders ==
    {o \in [1..Len(YantraNames) -> InstrumentNames] :
        \A a, b \in DOMAIN o : a # b => o[a] # o[b]}

C3_EquatorCompletes ==
    \A i \in Slots :
        (Called(i) /\ calc[i].self.latitude = 0 /\ calc[i].self.scale = ScaleOne)
            => /\ out[i].state = "returned"
               /\ out[i].value["samrat"].angles.gnomon_inclination = 0

\* C6 (as claimed): for scale > 0 and a latitude other than 0, every entry
\* of every dimensions mapping is > 0.
C6_DimensionsPositive ==
    \A i \in Slots :
        (Returned(i) /\ calc[i].self.scale > 0 /\ calc[i].self.latitude # 0)
            => \A name \in InstrumentNames :
                  \A k \in DOMAIN out[i].value[name].dimensions :
                     out[i].value[name].dimensions[k] > 0

\* C7: whenever the Samrat computation returns, gnomon_inclination is the
\* latitude of the calculator, and calculators at different latitudes report
\* different inclinations.
C7_InclinationIsLatitude ==
    /\ \A i \in Slots : Returned(i) =>
          out[i].value["samrat"].angles.gnomon_inclination = calc[i].self.latitude
    /\ \A i, j \in Slots :
          (Returned(i) /\ Returned(j)
             /\ calc[i].self.latitude # calc[j].self.latitude)
            => out[i].value["samrat"].angles.gnomon_inclination
                 # out[j].value["samrat"].angles.gnomon_inclination

\* two calculators at different latitudes, one of them southern
C7_Witness ==
    \E i, j \in Slots :
        /\ Returned(i) /\ Returned(j)
        /\ calc[i].self.latitude = -450000
        /\ calc[j].self.latitude = 450000
        /\ out[i].value["samrat"].angles.gnomon_inclination = -450000

\* the entries of a dimensions mapping that do not depend on the scale
FixedKeys(name) ==
    CASE name = "samrat" ->
            {"gnomon_angle", "hour_markings_count", "minute_markings_count"}
      [] name = "rama" -> {"radial_divisions", "scale_precision"}
      [] name = "digamsa" -> {"scale_divisions"}
      [] name = "dhruva" -> {}

\* entry d_s computed at scale s is s times entry d_1 computed at scale 1.0,
\* within 0.01 m
LinearIn(s, d_s, d_1) == Abs(ScaleOne * d_s - s * d_1) <= ScaleOne * 10

\* slot i holds a result at some scale and slot j one at scale 1.0 for the
\* same latitude
SamePlaceAtScaleOne(i, j) ==
    /\ Returned(i) /\ Returned(j)
    /\ calc[i].self.latitude = calc[j].self.latitude
    /\ calc[i].self.scale > 0
    /\ calc[j].self.scale = ScaleOne

\* C8 (as claimed): every entry of every dimensions mapping computed at
\* scale s is s times the entry computed at scale 1.
C8_AllDimensionsLinear ==
    \A i, j \in Slots : SamePlaceAtScaleOne(i, j) =>
        \A name \in InstrumentNames :
           \A k \in DOMAIN out[i].value[name].dimensions :
              LinearIn(calc[i].self.scale,
                       out[i].value[name].dimensions[k],
                       out[j].value[name].dimensions[k])

\* C8 (amended): every entry is linear in the scale, except the entries
\* that do not depend on the scale, which are equal at both scales, and the
\* Samrat wall_thickness, which is linear from scale 0.5 on and 0.3 m below.
C8_LengthsLinear ==
    \A i, j \in Slots : SamePlaceAtScaleOne(i, j) =>
        /\ \A name \in InstrumentNames :
              \A k \in DOMAIN out[i].value[name].dimensions :
                 LET d_s == out[i].value[name].dimensions[k]
                     d_1 == out[j].value[name].dimensions[k]
                 IN IF k \in FixedKeys(name) THEN d_s = d_1
                    ELSE IF name = "samrat" /\ k = "wall_thickness"
                            /\ calc[i].self.scale < 5
                    THEN d_s = 300
                    ELSE LinearIn(calc[i].self.scale, d_s, d_1)
        /\ ScaleOne * out[i].value["samrat"].dimensions.gnomon_height
              = 27400 * calc[i].self.scale

\* a result at scale 2.0 next to one at scale 1.0, and one at scale 0.1
C8_Witness ==
    \E i, j \in Slots :
        /\ SamePlaceAtScaleOne(i, j)
        /\ calc[i].self.scale = 20
        /\ calc[i].self.latitude = 269247
        /\ out[i].value["samrat"].dimensions.gnomon_height = 54800
        /\ out[i].value["dhruva"].dimensions.polar_axis_length = 10000

\* C9 (as claimed): pole_inclination_angle + (90 - celestial_pole_angle) = 90
C9_PoleAngleIdentity ==
    \A i \in Slots : Returned(i) =>
        LET angles == out[i].value["dhruva"].angles
        IN angles.pole_inclination_angle
             + (Degrees(90) - angles.celestial_pole_angle) = Degrees(90)

\* C10: two calculations that differ only in longitude return identical
\* dimensions and angles for each of the four instruments.
C10_LongitudeIgnored ==
    \A i, j \in Slots :
        (/\ Returned(i) /\ Returned(j)
         /\ calc[i].self.latitude = calc[j].self.latitude
         /\ calc[i].self.scale = calc[j].self.scale)
            => \A name \in InstrumentNames :
                  /\ out[i].value[name].dimensions = out[j].value[name].dimensions
                  /\ out[i].value[name].angles = out[j].value[name].angles

C10_Witness ==
    \E i, j \in Slots :
        /\ Returned(i) /\ Returned(j)
        /\ calc[i].self.latitude = calc[j].self.latitude
        /\ calc[i].self.scale = calc[j].self.scale
        /\ calc[i].self.longitude # calc[j].self.longitude

(***************************************************************************)
(* Determinism of the library (checked under LibSpec)                      *)
(***************************************************************************)
SameInputs(i, j) ==
    /\ calc[i].made /\ calc[j].made
    /\ calc[i].self.latitude = calc[j].self.latitude
    /\ calc[i].self.longitude = calc[j].self.longitude
    /\ calc[i].self.scale = calc[j].self.scale

\* a step in which calculate_all_yantras ran on calculator i
CallOn(i) == calc[i].made /\ ncalls'[i] = ncalls[i] + 1

AloneResponse(req) == Route(req.endpoint, req.data).response

FiveSites ==
    {"Jaipur_Jantar_Mantar", "Delhi_Jantar_Mantar", "Varanasi_Jantar_Mantar",
     "Ujjain_Jantar_Mantar", "Mathura_Yantra"}

\* an entry as tests/test_yantras.py expects it: a described place in India
WellFormedEntry(e) ==
    /\ DOMAIN e = {"latitude", "longitude", "description"}
    /\ Degrees(8) < e.latitude /\ e.latitude < Degrees(37)
    /\ Degrees(68) < e.longitude /\ e.longitude < Degrees(98)

SpecFields ==
    {"name", "description", "dimensions", "angles", "materials",
     "construction_notes"}

\* C14: a mapping that calculate_all_yantras returns has exactly the keys
\* samrat, rama, digamsa and dhruva, and each key is bound to a complete
\* specification: the one the instrument model of that name computes for
\* the calculator's instrument.
C14_FourSpecsByName ==
    \A i \in Slots : Returned(i) =>
        LET results == out[i].value
            yantras == calc[i].self.yantras
        IN /\ DOMAIN results = {"samrat", "rama", "digamsa", "dhruva"}
           /\ \A k \in DOMAIN results : DOMAIN results[k] = SpecFields
           /\ results["samrat"].name = "Samrat Yantra"
           /\ results["samrat"] =
                 SamratYantra_calculate_dimensions(yantras["samrat"]).value
           /\ results["rama"].name = "Rama Yantra"
           /\ results["rama"] =
                 RamaYantra_calculate_dimensions(yantras["rama"]).value
           /\ results["digamsa"].name = "Digamsa Yantra"
           /\ results["digamsa"] =
                 DigamsaYantra_calculate_dimensions(yantras["digamsa"]).value
           /\ results["dhruva"].name = "Dhruva-Protha-Chakra Yantra"
           /\ results["dhruva"] =
                 DhruvaYantra_calculate_dimensions(yantras["dhruva"]).value

C14_Witness ==
    \E i \in Slots :
        /\ Returned(i)
        /\ calc[i].self.latitude = 269247
        /\ Cardinality(DOMAIN out[i].value) = 4

(***************************************************************************)
(* Sunrise and sunset (checked under AstroSpec)                            *)
(***************************************************************************)
SunTimes == astro_out.state = "returned" /\ astro_out.method = "sunrise_sunset_times"

\* C15: in each of the three branches sunrise and sunset lie symmetric
\* about noon, 12 - sunrise = sunset - 12; so sunrise <= 12 <= sunset and
\* the daylight hours sunset - sunrise lie in [0, 24].
C15_SymmetricAboutNoon ==
    SunTimes =>
        LET sunrise == astro_out.value.sunrise
            sunset == astro_out.value.sunset
        IN /\ Hours(12) - sunrise = sunset - Hours(12)
           /\ sunrise <= Hours(12) /\ Hours(12) <= sunset
           /\ 0 <= sunset - sunrise /\ sunset - sunrise <= Hours(24)

\* an ordinary day with the sun up for more than twelve hours
C15_Witness ==
    /\ SunTimes
    /\ astro_out.value.branch = "ordinary"
    /\ astro_out.value.sunrise < Hours(6)
    /\ astro_out.value.sunset > Hours(18)

\* C16: with c = -tan(latitude) * tan(declination), the polar-day return
\* (0, 24) is taken exactly when c < -1 and the polar-night return (12, 12)
\* exactly when c > 1; otherwise, c = -1 and c = 1 included, the result is
\* (12 - H/15, 12 + H/15) with H = arccos(c) in degrees, and arccos, never
\* given an argument outside [-1, 1], does not raise.
C16_BranchByCosHourAngle ==
    (astro_calc.made /\ astro_out.state # "none"
        /\ astro_out.method = "sunrise_sunset_times") =>
        LET c == cos_hour_angle(astro_calc.self, astro_out.day_of_year)
            v == astro_out.value
        IN /\ astro_out.state = "returned"
           /\ v.branch = "polar_day" <=> c < -Ratio(1)
           /\ v.branch = "polar_night" <=> c > Ratio(1)
           /\ v.branch = "polar_day" => v.sunrise = Hours(0) /\ v.sunset = Hours(24)
           /\ v.branch = "polar_night" => v.sunrise = Hours(12) /\ v.sunset = Hours(12)
           /\ (-Ratio(1) <= c /\ c <= Ratio(1)) =>
                 /\ v.branch = "ordinary"
                 /\ math_acos(c).state = "returned"
                 /\ v.sunrise = Hours(12) - TDiv(degrees(math_acos(c).value), 15)
                 /\ v.sunset = Hours(12) + TDiv(degrees(math_acos(c).value), 15)

\* the boundary c = -1, reached in the ordinary branch
C16_Witness ==
    /\ astro_calc.made /\ SunTimes
    /\ cos_hour_angle(astro_calc.self, astro_out.day_of_year) = -Ratio(1)
    /\ astro_out.value.branch = "ordinary"

(***************************************************************************)
(* Declination (checked under AstroSpec)                                   *)
(***************************************************************************)
\* C17: for every day of the year from 1 to 366, at any place, the solar
\* declination lies in [-23.44, 23.44] degrees.
C17_DeclinationBounded ==
    (astro_out.state = "returned" /\ astro_out.method = "solar_declination") =>
        /\ -234400 <= astro_out.value
        /\ astro_out.value <= 234400

\* day 366 at a southern place, the declination close to its minimum
C17_Witness ==
    /\ astro_calc.made /\ astro_calc.self.latitude < 0
    /\ astro_out.state = "returned" /\ astro_out.method = "solar_declination"
    /\ astro_out.day_of_year = 366
    /\ astro_out.value < -Degrees(22)

(***************************************************************************)
(* The gnomon triangle of the Samrat Yantra (checked under LibSpec)        *)
(***************************************************************************)
\* |x/dx - y/dy| <= 0.01 m, compared after multiplying out, where slack is
\* what one unit of rounding in each stored length can add to dx*dy*|x/dx - y/dy|
Within(x, dx, y, dy, slack) == Abs(x * dy - y * dx) <= 10 * dx * dy + slack

Digamsa(i) == DigamsaYantra_calculate_dimensions(calc[i].self.yantras["digamsa"])

\* C19: two Digamsa calculations that differ only in latitude give the same
\* dimensions and the same angles, whether asked of the instrument or read
\* from the mapping of calculate_all_yantras; the angular steps are 90, 45
\* and 1 degree at every latitude.
C19_DigamsaIgnoresLatitude ==
    \A i, j \in Slots :
        (/\ calc[i].made /\ calc[j].made
         /\ calc[i].self.longitude = calc[j].self.longitude
         /\ calc[i].self.scale = calc[j].self.scale) =>
            /\ Digamsa(i).state = "returned"
            /\ Digamsa(i).value.dimensions = Digamsa(j).value.dimensions
            /\ Digamsa(i).value.angles = Digamsa(j).value.angles
            /\ Digamsa(i).value.angles.primary_angle_step = Degrees(90)
            /\ Digamsa(i).value.angles.secondary_angle_step = Degrees(45)
            /\ Digamsa(i).value.angles.fine_angle_step = Degrees(1)
            /\ (Returned(i) /\ Returned(j)) =>
                  /\ out[i].value["digamsa"].dimensions
                        = out[j].value["digamsa"].dimensions
                  /\ out[i].value["digamsa"].angles = out[j].value["digamsa"].angles

\* a northern and a southern calculator, equal but for the latitude
C19_Witness ==
    \E i, j \in Slots :
        /\ Returned(i) /\ Returned(j)
        /\ calc[i].self.latitude > 0 /\ calc[j].self.latitude < 0
        /\ calc[i].self.longitude = calc[j].self.longitude
        /\ calc[i].self.scale = calc[j].self.scale

(***************************************************************************)
(* Degrees, minutes, seconds (checked under SiteSpec)                      *)
(***************************************************************************)
\* the parts d, m, s (s unrounded) split the magnitude a of a coordinate:
\* d = floor(a), m = floor((a - d) * 60) in 0..59, s in [0, 60), and
\* d + m/60 + s/3600 = a
SplitsMagnitude(p, a) ==
    /\ p.degrees >= 0
    /\ 0 <= a - p.degrees * Degrees(1) /\ a - p.degrees * Degrees(1) < Degrees(1)
    /\ p.minutes \in 0..59
    /\ 0 <= p.seconds /\ p.seconds < 60 * Degrees(1)
    /\ (a - p.degrees * Degrees(1)) * 3600
          = p.minutes * 60 * Degrees(1) + p.seconds

\* the string shows the parts, the seconds rounded to one decimal
Shows(text, p) ==
    /\ text[1] = p.degrees /\ text[2] = p.minutes /\ text[4] = p.direction
    /\ Abs(10000 * text[3] - 10 * p.seconds) <= 5000

\* C20: in the DMS strings of a site analysis the hemisphere letter follows
\* the sign of the coordinate (N and E for values >= 0, zero included, S and
\* W below zero); degrees, minutes and seconds are those of the magnitude,
\* the minutes in 0..59 and the unrounded seconds in [0, 60); and the
\* strings of x and of -x differ in nothing but the letter.
C20_DmsOfMagnitude ==
    analysis.state = "returned" =>
        LET loc == analysis.value.location
            lat == loc.latitude
            lon == loc.longitude
            tlat == loc.coordinates_dms.latitude_dms
            tlon == loc.coordinates_dms.longitude_dms
            plat == dd_to_dms_parts(lat, TRUE)
            plon == dd_to_dms_parts(lon, FALSE)
        IN /\ tlat[4] = (IF lat >= 0 THEN "N" ELSE "S")
           /\ tlon[4] = (IF lon >= 0 THEN "E" ELSE "W")
           /\ SplitsMagnitude(plat, Abs(lat)) /\ Shows(tlat, plat)
           /\ SplitsMagnitude(plon, Abs(lon)) /\ Shows(tlon, plon)
           /\ \A k \in 1..3 : /\ tlat[k] = dd_to_dms(-lat, TRUE)[k]
                              /\ tlon[k] = dd_to_dms(-lon, FALSE)[k]
           /\ lat # 0 => tlat[4] # dd_to_dms(-lat, TRUE)[4]
           /\ lon # 0 => tlon[4] # dd_to_dms(-lon, FALSE)[4]

\* a southern, western place just short of a whole degree
C20_Witness ==
    /\ analysis.state = "returned"
    /\ analysis.value.location.latitude = -599999
    /\ analysis.value.location.longitude < 0
    /\ analysis.value.location.coordinates_dms.latitude_dms = <<59, 59, 596, "S">>

(***************************************************************************)
(* Solar azimuth before and after noon (checked under AstroSpec)           *)
(***************************************************************************)
SunPosition ==
    astro_out.state = "returned" /\ astro_out.method = "solar_elevation_azimuth"

\* C21: solar_elevation_azimuth reflects the azimuth as 360 - azimuth exactly
\* when the hour angle is positive: up to and at noon the returned azimuth
\* lies in [0, 180] degrees, after noon in [180, 360], and the azimuth of a
\* time after noon is 360 minus that of the time as long before noon, at the
\* same elevation.
C21_AzimuthReflectedAfterNoon ==
    SunPosition =>
        LET t == astro_out.local_solar_time
            v == astro_out.value
            w == solar_elevation_azimuth(astro_calc.self, astro_out.day_of_year,
                                         Hours(24) - t)
        IN /\ t <= Hours(12) => 0 <= v.azimuth /\ v.azimuth <= Degrees(180)
           /\ t > Hours(12) =>
                 /\ Degrees(180) <= v.azimuth /\ v.azimuth <= Degrees(360)
                 /\ w.state = "returned"
                 /\ w.value.elevation = v.elevation
                 /\ w.value.azimuth = Degrees(360) - v.azimuth

\* the instant after noon at Jaipur: the azimuth is already the reflected one
C21_Witness ==
    /\ SunPosition
    /\ astro_calc.self.latitude = 269247
    /\ astro_out.local_solar_time = Hours(12) + 1
    /\ astro_out.value.azimuth > Degrees(180)
    /\ astro_out.value.azimuth < Degrees(360)

(***************************************************************************)
(* Extremes of the noon sun in the site analysis (checked under SiteSpec)  *)
(***************************************************************************)
\* C22: for every latitude in [-90, 90] the site analysis reports
\* max_sun_elevation >= min_sun_elevation, with max_sun_elevation =
\* 90 - |latitude - 23.44| and min_sun_elevation = 90 - |latitude + 23.44|.
C22_MaxNotBelowMin ==
    analysis.state = "returned" =>
        LET latitude == analysis.value.location.latitude
            a == analysis.value.astronomical_data
        IN /\ a.max_sun_elevation = Degrees(90) - Abs(latitude - 234400)
           /\ a.min_sun_elevation = Degrees(90) - Abs(latitude + 234400)
           /\ a.max_sun_elevation >= a.min_sun_elevation

(***************************************************************************)
(* Outcomes of POST /api/calculate (checked under Spec)                    *)
(***************************************************************************)
ValidationError ==
    /\ response.status = 400 /\ response.success = "absent"
    /\ response.error # <<>> /\ response.body = NoBody

FullSuccess ==
    /\ response.status = 200 /\ response.success = "true"
    /\ response.error = <<>> /\ response.body # NoBody
    /\ DOMAIN response.body.yantras = InstrumentNames
    /\ DOMAIN response.body.site_analysis =
          {"location", "astronomical_data", "construction_considerations"}

CalculationError ==
    /\ response.status = 500 /\ response.success = "false"
    /\ response.error # <<>> /\ response.error[1] = "Calculation error"
    /\ response.body = NoBody

\* latitude, longitude and scale all present and in range
AllPresentInRange(data) ==
    /\ Has(data, "latitude") /\ Has(data, "longitude") /\ Has(data, "scale")
    /\ ~InvalidCalculate(data)

\* C23: every POST /api/calculate ends in exactly one of three outcomes: a
\* 400 validation error, a 200 success with all four instruments and the
\* site analysis, or a 500 'Calculation error' with success = false; a
\* request with latitude, longitude and scale present and in range and a
\* latitude other than 0 gets the 200 outcome; and a request that omits
\* scale is answered as the same request with scale 1.0.
C23_CalculateOutcomes ==
    request.endpoint = "calculate" =>
        /\ \/ ValidationError /\ ~FullSuccess /\ ~CalculationError
           \/ FullSuccess /\ ~ValidationError /\ ~CalculationError
           \/ CalculationError /\ ~ValidationError /\ ~FullSuccess
        /\ (AllPresentInRange(request.data) /\ request.data["latitude"] # 0)
              => FullSuccess
        /\ (request.data # <<>> /\ ~Has(request.data, "scale"))
              => response =
                   calculate_yantras(request.data @@ ("scale" :> ScaleOne)).response

(***************************************************************************)
(* The registered sites through the HTTP boundary (checked under Spec)     *)
(***************************************************************************)
\* the calculator a handler builds for a registered site
SiteTriple(name) ==
    [latitude |-> get_historical_sites[name].latitude,
     longitude |-> get_historical_sites[name].longitude,
     scale |-> ScaleOne]

\* C24: for every name of the registry, site-details and compare-sites do
\* not end in the computation failure: every registered latitude is other
\* than 0, the lookup succeeds with all four instruments computed at scale
\* 1.0, and the entry compare-sites stores for the site carries
\* samrat_gnomon_angle and dhruva_pole_angle both equal to the registered
\* latitude.
C24_RegisteredSitesCompute ==
    /\ \A name \in DOMAIN get_historical_sites :
          get_historical_sites[name].latitude # 0
    /\ (request.endpoint = "site_details"
          /\ request.data \in DOMAIN get_historical_sites)
        => /\ response.status = 200
           /\ response.success = "true"
           /\ DOMAIN response.body.yantras = InstrumentNames
           /\ response.body.site_info = get_historical_sites[request.data]
           /\ constructed = <<SiteTriple(request.data)>>
           /\ invoked = {"calculate_all_yantras", "get_site_analysis"}
    /\ (request.endpoint = "compare_sites" /\ Has(request.data, "sites"))
        => /\ response.status # 500
           /\ \A k \in DOMAIN request.data["sites"] :
                 LET name == request.data["sites"][k]
                 IN name \in DOMAIN get_historical_sites =>
                       /\ response.status = 200
                       /\ name \in DOMAIN response.body.comparison
                       /\ response.body.comparison[name].samrat_gnomon_angle
                             = get_historical_sites[name].latitude
                       /\ response.body.comparison[name].dhruva_pole_angle
                             = get_historical_sites[name].latitude
                       /\ \E c \in DOMAIN constructed :
                             constructed[c] = SiteTriple(name)

\* Ujjain, the site nearest to the solstice declination, compared with Jaipur
C24_Witness ==
    /\ request.endpoint = "compare_sites"
    /\ Has(request.data, "sites")
    /\ request.data["sites"] = <<"Ujjain_Jantar_Mantar", "Jaipur_Jantar_Mantar">>
    /\ response.status = 200
    /\ response.body.comparison["Ujjain_Jantar_Mantar"].dhruva_pole_angle = 231793
    /\ response.body.comparison["Jaipur_Jantar_Mantar"].samrat_gnomon_angle = 269247
====
